---- MODULE Spec2Model ----
(***************************************************************************)
(* Birdwatcher PackageService                                              *)
(* (agent/plugins/configurepackage/birdwatcher/birdwatcherservice).        *)
(*                                                                         *)
(* The service is synchronous and holds no mutable state of its own; the   *)
(* only state that survives a call is the manifest cache.  Every public    *)
(* operation is one action.  `cache` is the content of the manifest cache, *)
(* `last` is the record of the most recent call: its inputs, what each     *)
(* collaborator answered, the collaborator calls it made in order, and     *)
(* what it returned.                                                       *)
(***************************************************************************)
EXTENDS Integers, Sequences, FiniteSets, TLC

VARIABLES cache, last

vars == <<cache, last>>

(***************************************************************************)
(* Data model.                                                             *)
(* Go maps are functions with a finite string domain; a nil or absent map  *)
(* behaves as the empty map on lookup.  A pointer that may be nil (a JSON  *)
(* null) carries a `null` flag.                                            *)
(***************************************************************************)
AnyKey == "_any"

EmptyMap == [k \in {} |-> k]

Maps(K, V) == UNION {[D -> V] : D \in SUBSET K}

PackageInfo(fileName) == [null |-> FALSE, fileName |-> fileName]

NullPackageInfo == [null |-> TRUE, fileName |-> ""]

FileInfo(digest) == [null |-> FALSE, checksums |-> [sha256 |-> digest]]

NullFileInfo == [null |-> TRUE, checksums |-> [sha256 |-> ""]]

Manifest(arn, version, packages, files) ==
    [arn |-> arn, version |-> version, packages |-> packages, files |-> files]

\* What the environment collector answers: an error, or the host's triple.
Env(platform, platformVersion, architecture) ==
    [err |-> FALSE, platform |-> platform, platformVersion |-> platformVersion,
     architecture |-> architecture]

EnvFailure == [err |-> TRUE, platform |-> "", platformVersion |-> "", architecture |-> ""]

ErrNone == ""

(***************************************************************************)
(* Selector resolver.                                                      *)
(***************************************************************************)
matchPackageSelectorPlatformPreferAny(key, dict) ==
    IF AnyKey \in DOMAIN dict THEN [key |-> AnyKey, ok |-> TRUE]
    ELSE IF key \in DOMAIN dict THEN [key |-> key, ok |-> TRUE]
    ELSE [key |-> "", ok |-> FALSE]

matchPackageSelectorPlatform(key, dict) ==
    IF key \in DOMAIN dict THEN [key |-> key, ok |-> TRUE]
    ELSE IF AnyKey \in DOMAIN dict THEN [key |-> AnyKey, ok |-> TRUE]
    ELSE [key |-> "", ok |-> FALSE]

matchPackageSelectorVersion(key, dict) ==
    IF key \in DOMAIN dict THEN [key |-> key, ok |-> TRUE]
    ELSE IF AnyKey \in DOMAIN dict THEN [key |-> AnyKey, ok |-> TRUE]
    ELSE [key |-> "", ok |-> FALSE]

\* A fallback that takes whatever entry the map holds when neither the host's
\* key nor "_any" is present.
matchPackageSelectorArchAnyEntry(key, dict) ==
    IF key \in DOMAIN dict THEN [key |-> key, ok |-> TRUE]
    ELSE IF AnyKey \in DOMAIN dict THEN [key |-> AnyKey, ok |-> TRUE]
    ELSE IF DOMAIN dict # {} THEN [key |-> CHOOSE k \in DOMAIN dict : TRUE, ok |-> TRUE]
    ELSE [key |-> "", ok |-> FALSE]

matchPackageSelectorArch(key, dict) ==
    IF key \in DOMAIN dict THEN [key |-> key, ok |-> TRUE]
    ELSE IF AnyKey \in DOMAIN dict THEN [key |-> AnyKey, ok |-> TRUE]
    ELSE [key |-> "", ok |-> FALSE]

NoMatch == [err |-> "NoMatchError", pkginfo |-> NullPackageInfo]

\* A search that goes back to "_any" at a shallower level when a deeper level
\* finds nothing.
selectPackageInfoBacktracking(env, packages) ==
    LET paths == {<<k1, k2, k3>> \in {"linux", "windows", AnyKey} \X {"5.0", "6.0", AnyKey}
                                     \X {"x86_64", "arm64", AnyKey} :
                     /\ k1 \in {env.platform, AnyKey} /\ k1 \in DOMAIN packages
                     /\ k2 \in {env.platformVersion, AnyKey} /\ k2 \in DOMAIN packages[k1]
                     /\ k3 \in {env.architecture, AnyKey} /\ k3 \in DOMAIN packages[k1][k2]}
        rank(t) == (IF t[1] = AnyKey THEN 4 ELSE 0) + (IF t[2] = AnyKey THEN 2 ELSE 0)
                   + (IF t[3] = AnyKey THEN 1 ELSE 0)
    IN IF paths = {} THEN NoMatch
       ELSE LET best == CHOOSE t \in paths : \A u \in paths : rank(t) <= rank(u)
            IN [err |-> ErrNone, pkginfo |-> packages[best[1]][best[2]][best[3]]]

\* The three lookups once the collector has answered.
selectPackageInfo(env, packages) ==
    LET kp == matchPackageSelectorPlatform(env.platform, packages) IN
    IF ~kp.ok THEN NoMatch
    ELSE LET kv == matchPackageSelectorVersion(env.platformVersion, packages[kp.key]) IN
         IF ~kv.ok THEN NoMatch
         ELSE LET ka == matchPackageSelectorArch(env.architecture, packages[kp.key][kv.key]) IN
              IF ~ka.ok THEN NoMatch
              ELSE [err |-> ErrNone, pkginfo |-> packages[kp.key][kv.key][ka.key]]

extractPackageInfo(env, manifest) ==
    IF env.err THEN [err |-> "CollectError", pkginfo |-> NullPackageInfo]
    ELSE selectPackageInfo(env, manifest.packages)

(***************************************************************************)
(* Artifact locator.                                                       *)
(***************************************************************************)
NoFile == [name |-> "", info |-> NullFileInfo]

\* A scan that stops at the first entry without comparing its name.
scanFilesFirstEntry(files, fileName) ==
    IF DOMAIN files = {} THEN NoFile
    ELSE LET name == CHOOSE n \in DOMAIN files : TRUE
         IN [name |-> name, info |-> files[name]]

\* The loop over manifest.Files: fileInfo and filename after it (fileInfo
\* stays nil when no name is equal, and is nil when the entry itself is nil).
scanFiles(files, fileName) ==
    IF fileName \in DOMAIN files
    THEN [name |-> fileName, info |-> files[fileName]]
    ELSE NoFile

\* A locator that settles for some file of the table when the one the
\* variant names is missing.
findFileFromManifestAnyFile(env, manifest) ==
    LET r == extractPackageInfo(env, manifest) IN
    IF r.err # ErrNone THEN [err |-> r.err, file |-> NoFile]
    ELSE IF r.pkginfo.null THEN [err |-> "Panic", file |-> NoFile]
    ELSE LET found == scanFiles(manifest.files, r.pkginfo.fileName)
             other == CHOOSE n \in DOMAIN manifest.files : ~manifest.files[n].null
         IN
         IF ~found.info.null THEN [err |-> ErrNone, file |-> found]
         ELSE IF \E n \in DOMAIN manifest.files : ~manifest.files[n].null
         THEN [err |-> ErrNone, file |-> [name |-> other, info |-> manifest.files[other]]]
         ELSE [err |-> "FileNotFoundError", file |-> NoFile]

findFileFromManifest(env, manifest) ==
    LET r == extractPackageInfo(env, manifest) IN
    IF r.err # ErrNone THEN [err |-> r.err, file |-> NoFile]
    ELSE IF r.pkginfo.null THEN [err |-> "Panic", file |-> NoFile]
    ELSE LET found == scanFiles(manifest.files, r.pkginfo.fileName) IN
         IF found.info.null THEN [err |-> "FileNotFoundError", file |-> NoFile]
         ELSE [err |-> ErrNone, file |-> found]

(***************************************************************************)
(* Manifest cache and archive backend (collaborators).                     *)
(* Raw manifest bytes are a record: whether they decode, the document they *)
(* decode to, and `pad`, which tells apart byte strings that decode to the *)
(* same document (whitespace, key order, unknown fields).                  *)
(***************************************************************************)
EmptyManifest == Manifest("", "", EmptyMap, EmptyMap)

Encode(manifest, pad) == [wf |-> TRUE, doc |-> manifest, pad |-> pad]

Malformed == [wf |-> FALSE, doc |-> EmptyManifest, pad |-> 0]

NilManifest == [null |-> TRUE, value |-> EmptyManifest]

\* A cache entry: absent, present but unreadable, or present with its bytes.
Absent == [state |-> "absent", data |-> Malformed]

Unreadable == [state |-> "unreadable", data |-> Malformed]

Present(data) == [state |-> "present", data |-> data]

ReadManifest(c, name, version) ==
    LET e == c[<<name, version>>] IN
    IF e.state = "present" THEN [err |-> ErrNone, data |-> e.data]
    ELSE [err |-> "CacheMissError", data |-> Malformed]

WriteManifest(c, name, version, data) == [c EXCEPT ![<<name, version>>] = Present(data)]

GetResourceArn(manifest) == manifest.arn

Call(fn, name, version) == [fn |-> fn, name |-> name, version |-> version]

(***************************************************************************)
(* Manifest store.                                                         *)
(***************************************************************************)
parseManifest(data) ==
    IF data.wf THEN [err |-> ErrNone, manifest |-> [null |-> FALSE, value |-> data.doc]]
    ELSE [err |-> "DecodeError", manifest |-> NilManifest]

\* A read that takes the cached bytes for a manifest without looking at the
\* decoder's error.
readManifestFromCacheUnchecked(c, packageName, version) ==
    LET r == ReadManifest(c, packageName, version) IN
    IF r.err # ErrNone THEN [err |-> r.err, manifest |-> NilManifest]
    ELSE [err |-> ErrNone, manifest |-> [null |-> FALSE, value |-> r.data.doc]]

readManifestFromCache(c, packageName, version) ==
    LET r == ReadManifest(c, packageName, version) IN
    IF r.err # ErrNone THEN [err |-> r.err, manifest |-> NilManifest]
    ELSE parseManifest(r.data)

\* A comparison that takes "nothing cached" for "nothing changed".
DeepEqualNilMatches(parsedManifest, cachedManifest) ==
    \/ cachedManifest.null
    \/ /\ ~parsedManifest.null
       /\ parsedManifest.value = cachedManifest.value

\* A comparison of the two pointers instead of the documents they point to.
DeepEqualPointerIdentity(parsedManifest, cachedManifest) ==
    parsedManifest.null /\ cachedManifest.null

\* reflect.DeepEqual of the parsed manifest and the cached one (nil when the
\* cache read failed).
DeepEqual(parsedManifest, cachedManifest) ==
    /\ parsedManifest.null = cachedManifest.null
    /\ parsedManifest.null \/ parsedManifest.value = cachedManifest.value

\* The key of the caller, not of the manifest.
cacheKeyOfCaller(packageName, version, parsed) == <<packageName, version>>

\* The cache key downloadManifest reads and writes.
cacheKey(packageName, version, parsed) == <<GetResourceArn(parsed), parsed.version>>

\* A write that is skipped when the cached manifest equals the parsed one.
cacheWriteWhenChanged(c, key, byteManifest) ==
    IF DeepEqual(parseManifest(byteManifest).manifest,
                 readManifestFromCache(c, key[1], key[2]).manifest)
    THEN c
    ELSE WriteManifest(c, key[1], key[2], byteManifest)

\* A write that never reaches the cache.
cacheWriteDropped(c, key, byteManifest) == c

\* ds.manifestCache.WriteManifest(arn, version, byteManifest) when it succeeds.
cacheWrite(c, key, byteManifest) == WriteManifest(c, key[1], key[2], byteManifest)

\* A downloadManifest that does not look at the error of the cache write,
\* and one that stores the fetched bytes under the caller's key before it
\* parses them.
downloadManifestIgnoringWriteError(c, packageName, version, fetched, writeOk) ==
    LET fetch == <<Call("archive.DownloadArchiveInfo", packageName, version)>> IN
    IF fetched.err
    THEN [manifest |-> NilManifest, isSameAsCache |-> FALSE, err |-> "BackendError",
          cache |-> c, calls |-> fetch]
    ELSE
    LET parsed == parseManifest(fetched.data) IN
    IF parsed.err # ErrNone
    THEN [manifest |-> NilManifest, isSameAsCache |-> FALSE, err |-> parsed.err,
          cache |-> c, calls |-> fetch]
    ELSE
    LET key == cacheKey(packageName, version, parsed.manifest.value)
        cached == readManifestFromCache(c, key[1], key[2])
    IN [manifest |-> parsed.manifest,
        isSameAsCache |-> DeepEqual(parsed.manifest, cached.manifest),
        err |-> ErrNone,
        cache |-> IF writeOk THEN cacheWrite(c, key, fetched.data) ELSE c,
        calls |-> fetch \o <<Call("cache.ReadManifest", key[1], key[2]),
                             Call("cache.WriteManifest", key[1], key[2])>>]

downloadManifestWriteBeforeParse(c, packageName, version, fetched, writeOk) ==
    LET fetch == <<Call("archive.DownloadArchiveInfo", packageName, version)>> IN
    IF fetched.err
    THEN [manifest |-> NilManifest, isSameAsCache |-> FALSE, err |-> "BackendError",
          cache |-> c, calls |-> fetch]
    ELSE
    LET parsed == parseManifest(fetched.data)
        stored == WriteManifest(c, packageName, version, fetched.data)
        store == <<Call("cache.WriteManifest", packageName, version)>>
    IN
    IF parsed.err # ErrNone
    THEN [manifest |-> NilManifest, isSameAsCache |-> FALSE, err |-> parsed.err,
          cache |-> stored, calls |-> fetch \o store]
    ELSE
    LET key == cacheKey(packageName, version, parsed.manifest.value)
        cached == readManifestFromCache(c, key[1], key[2])
        isSameAsCache == DeepEqual(parsed.manifest, cached.manifest)
        calls == fetch \o <<Call("cache.ReadManifest", key[1], key[2]),
                            Call("cache.WriteManifest", key[1], key[2])>>
    IN IF ~writeOk
       THEN [manifest |-> NilManifest, isSameAsCache |-> isSameAsCache,
             err |-> "CacheWriteError", cache |-> c, calls |-> calls]
       ELSE [manifest |-> parsed.manifest, isSameAsCache |-> isSameAsCache,
             err |-> ErrNone, cache |-> cacheWrite(c, key, fetched.data),
             calls |-> calls]

\* `fetched` is the backend's answer to DownloadArchiveInfo (err, data) and
\* `writeOk` whether the cache write succeeds.  The result carries the cache
\* after the call and the collaborator calls in order.
downloadManifest(c, packageName, version, fetched, writeOk) ==
    LET fetch == <<Call("archive.DownloadArchiveInfo", packageName, version)>> IN
    IF fetched.err
    THEN [manifest |-> NilManifest, isSameAsCache |-> FALSE, err |-> "BackendError",
          cache |-> c, calls |-> fetch]
    ELSE
    LET parsed == parseManifest(fetched.data) IN
    IF parsed.err # ErrNone
    THEN [manifest |-> NilManifest, isSameAsCache |-> FALSE, err |-> parsed.err,
          cache |-> c, calls |-> fetch]
    ELSE
    LET key == cacheKey(packageName, version, parsed.manifest.value)
        cached == readManifestFromCache(c, key[1], key[2])
        isSameAsCache == DeepEqual(parsed.manifest, cached.manifest)
        calls == fetch \o <<Call("cache.ReadManifest", key[1], key[2]),
                            Call("cache.WriteManifest", key[1], key[2])>>
    IN IF ~writeOk
       THEN [manifest |-> NilManifest, isSameAsCache |-> isSameAsCache,
             err |-> "CacheWriteError", cache |-> c, calls |-> calls]
       ELSE [manifest |-> parsed.manifest, isSameAsCache |-> isSameAsCache,
             err |-> ErrNone, cache |-> cacheWrite(c, key, fetched.data),
             calls |-> calls]

(***************************************************************************)
(* Artifact download.                                                      *)
(***************************************************************************)
\* A downloadFile that returns whatever path the downloader left behind,
\* without looking at the downloader's error.
downloadFileTrustingPath(file, packagename, version, location, downloaded) ==
    LET locate == <<Call("archive.GetFileDownloadLocation", packagename, version)>> IN
    IF location.err
    THEN [path |-> "", err |-> "BackendError", calls |-> locate, checksums |-> <<>>]
    ELSE
    LET calls == locate \o <<Call("Networkdep.Download", location.url, "")>>
        checksums == <<file.info.checksums>>
    IN IF downloaded.path = ""
       THEN [path |-> "", err |-> "DownloadError", calls |-> calls, checksums |-> checksums]
       ELSE [path |-> downloaded.path, err |-> ErrNone, calls |-> calls,
             checksums |-> checksums]

\* A downloadFile that asks the downloader a second time when the first
\* attempt fails (and gets the same answer).
downloadFileRetrying(file, packagename, version, location, downloaded) ==
    LET locate == <<Call("archive.GetFileDownloadLocation", packagename, version)>> IN
    IF location.err
    THEN [path |-> "", err |-> "BackendError", calls |-> locate, checksums |-> <<>>]
    ELSE
    LET attempt == <<Call("Networkdep.Download", location.url, "")>>
        checksums == <<file.info.checksums>>
    IN IF downloaded.err \/ downloaded.path = ""
       THEN [path |-> "", err |-> "DownloadError", calls |-> locate \o attempt \o attempt,
             checksums |-> checksums \o checksums]
       ELSE [path |-> downloaded.path, err |-> ErrNone, calls |-> locate \o attempt,
             checksums |-> checksums]

\* `location` is the backend's answer to GetFileDownloadLocation (err, url)
\* and `downloaded` the downloader's answer (err, path).
downloadFile(file, packagename, version, location, downloaded) ==
    LET locate == <<Call("archive.GetFileDownloadLocation", packagename, version)>> IN
    IF location.err
    THEN [path |-> "", err |-> "BackendError", calls |-> locate, checksums |-> <<>>]
    ELSE
    LET calls == locate \o <<Call("Networkdep.Download", location.url, "")>>
        checksums == <<file.info.checksums>>
    IN IF downloaded.err \/ downloaded.path = ""
       THEN [path |-> "", err |-> "DownloadError", calls |-> calls, checksums |-> checksums]
       ELSE [path |-> downloaded.path, err |-> ErrNone, calls |-> calls,
             checksums |-> checksums]

(***************************************************************************)
(* Result reporter.                                                        *)
(* Timestamps are UnixNano readings (int64).  The model draws them from    *)
(* non-negative values, for which the int64 subtraction cannot wrap.       *)
(***************************************************************************)
NanosPerMilli == 1000000

\* Go's integer division: the quotient truncated toward zero (d > 0).
GoQuotient(n, d) == IF n >= 0 THEN n \div d ELSE -((-n) \div d)

\* A conversion that forgets the start of the run.
elapsedMillisWallClock(timing, start) == GoQuotient(timing, NanosPerMilli)

elapsedMillis(timing, start) == GoQuotient(timing - start, NanosPerMilli)

\* The steps a loop builds when every step points at the one loop variable:
\* each carries the operation and exit code of the last step.
buildStepsSharedLoopVariable(trace, start) ==
    [i \in 1..Len(trace) |->
        [action |-> trace[Len(trace)].operation,
         result |-> trace[Len(trace)].exitcode,
         timing |-> elapsedMillis(trace[i].timing, start)]]

\* result.Trace holds pointers to the steps: &t.Operation and &t.Exitcode
\* are the fields of the i-th step itself, and timing is a fresh variable
\* in each iteration.
buildSteps(trace, start) ==
    [i \in 1..Len(trace) |->
        [action |-> trace[i].operation,
         result |-> trace[i].exitcode,
         timing |-> elapsedMillis(trace[i].timing, start)]]

\* An optional string of the payload: nil, or a value.
NoString == [null |-> TRUE, value |-> ""]

SomeString(v) == [null |-> FALSE, value |-> v]

NoPayload == [null |-> TRUE]

\* `collected` is what the collector answered: err, whether the environment
\* it returned is nil, and the attributes.  `transportErr` is whether
\* PutConfigurePackageResult failed.
reportResult(result, collected, now, transportErr) ==
    LET previousPackageVersion ==
            IF result.previousPackageVersion # ""
            THEN SomeString(result.previousPackageVersion) ELSE NoString
        steps == buildSteps(result.trace, result.timing)
        overallTiming == elapsedMillis(now, result.timing)
    IN IF collected.null
       THEN \* env is nil: building the attributes dereferences it
            [err |-> "Panic", input |-> NoPayload,
             calls |-> <<"collector.CollectData", "timeProvider.NowUnixNano">>]
       ELSE [err |-> IF transportErr THEN "ReportSubmissionError" ELSE ErrNone,
             input |-> [null |-> FALSE,
                        packageName |-> result.packageName,
                        packageVersion |-> result.version,
                        previousPackageVersion |-> previousPackageVersion,
                        operation |-> result.operation,
                        overallTiming |-> overallTiming,
                        result |-> result.exitcode,
                        attributes |-> [platformName |-> collected.platform,
                                        platformVersion |-> collected.platformVersion,
                                        architecture |-> collected.architecture,
                                        instanceID |-> collected.instanceID,
                                        instanceType |-> collected.instanceType,
                                        region |-> collected.region,
                                        availabilityZone |-> collected.availabilityZone],
                        steps |-> steps],
             calls |-> <<"collector.CollectData", "timeProvider.NowUnixNano",
                         "facadeClient.PutConfigurePackageResult">>]

(***************************************************************************)
(* Inputs of the selector specification.                                   *)
(***************************************************************************)
PlatformKeys == {"linux", AnyKey}
VersionKeys == {"5.0", AnyKey}
ArchKeys == {"x86_64", AnyKey}
Variants == {PackageInfo("pkg.zip"), PackageInfo("other.zip")}

\* Every selector tree over the given keys and leaves, empty sub-maps included.
SelectorTrees(platformKeys, versionKeys, archKeys, leaves) ==
    Maps(platformKeys, Maps(versionKeys, Maps(archKeys, leaves)))

Hosts == {Env(p, v, a) : p \in {"linux", "windows"}, v \in {"5.0", "6.0"},
                         a \in {"x86_64", "arm64"}}

PkgFiles == [f \in {"pkg.zip"} |-> FileInfo("abc")]

SelectorInputs(trees) ==
    {[op |-> "input", manifest |-> Manifest("arnA", "1.0", t, PkgFiles), env |-> e] :
        t \in trees, e \in Hosts \cup {EnvFailure}}

(***************************************************************************)
(* Inputs of the locator specification: one-path selector trees whose leaf *)
(* may be null, and file tables whose entries may be null.                 *)
(***************************************************************************)
SinglePath(k1, k2, k3, leaf) ==
    [a \in {k1} |-> [b \in {k2} |-> [c \in {k3} |-> leaf]]]

FileNames == {"pkg.zip", "other.zip"}

FileInfos == {FileInfo("abc"), FileInfo("def"), NullFileInfo}

Leaves == Variants \cup {PackageInfo("gone.zip"), NullPackageInfo}

LocateInputs ==
    {[op |-> "input",
      manifest |-> Manifest("arnA", "1.0", SinglePath(k1, AnyKey, k3, leaf), files),
      env |-> e] :
        k1 \in PlatformKeys, k3 \in ArchKeys, leaf \in Leaves,
        files \in Maps(FileNames, FileInfos),
        e \in {Env("linux", "5.0", "x86_64"), Env("windows", "5.0", "arm64"), EnvFailure}}

(***************************************************************************)
(* Inputs of the reporter specification.                                   *)
(***************************************************************************)
MaxSteps == 2

StartTimestamps == {0, 1000000000}

\* Equal to the start, two milliseconds after it, just short of two
\* milliseconds after it, and a millisecond and a half before it.
StepTimestamps == {1000000000, 1002000000, 1001999999, 998500001}

Steps == [operation : {"download", "install"}, exitcode : {0, 1}, timing : StepTimestamps]

Traces(maxLen) == UNION {[1..n -> Steps] : n \in 0..maxLen}

Collected(err, null, platform, rest) ==
    [err |-> err, null |-> null, platform |-> platform,
     platformVersion |-> rest, architecture |-> rest, instanceID |-> rest,
     instanceType |-> rest, region |-> rest, availabilityZone |-> rest]

\* The collector succeeds; fails returning no environment; fails returning
\* a partly filled one.
CollectorAnswers ==
    {Collected(FALSE, FALSE, "linux", "x"), Collected(TRUE, TRUE, "", ""),
     Collected(TRUE, FALSE, "linux", "")}

PackageResults(traces) ==
    {[packageName |-> "arnA", version |-> "1.0", previousPackageVersion |-> pv,
      operation |-> "Install", timing |-> s, exitcode |-> 0, trace |-> tr] :
        pv \in {"", "0.9"}, s \in StartTimestamps, tr \in traces}

ReportInputs(results) ==
    {[op |-> "input", result |-> r, collected |-> c, now |-> n, transportErr |-> t] :
        r \in results, c \in CollectorAnswers,
        n \in {1002000000, 999999999}, t \in BOOLEAN}

(***************************************************************************)
(* Inputs of the manifest store and artifact download.                     *)
(***************************************************************************)
Pads == {0, 1}

PackageNames == {"arnA", "arnB"}

Latest == "latest"

RequestVersions == {"1.0", Latest}

\* The scenario manifest of the package, a revision of it whose variant
\* names a file the table lacks, and the manifest of another package.
ScenarioTree == SinglePath("linux", AnyKey, "x86_64", PackageInfo("pkg.zip"))

StoreManifests ==
    {Manifest("arnA", "1.0", ScenarioTree, PkgFiles),
     Manifest("arnA", "1.0", SinglePath(AnyKey, AnyKey, AnyKey, PackageInfo("gone.zip")),
              PkgFiles),
     Manifest("arnB", "1.0", ScenarioTree, [f \in {"pkg.zip"} |-> FileInfo("def")])}

ManifestBytes == {Encode(m, pad) : m \in StoreManifests, pad \in Pads}

\* The backend fails, or answers bytes that may not decode.
Fetched(err, data) == [err |-> err, data |-> data]

BackendAnswers ==
    {Fetched(TRUE, Malformed)} \cup {Fetched(FALSE, d) : d \in ManifestBytes \cup {Malformed}}

StoreHosts == {Env("linux", "5.0", "x86_64"), Env("windows", "5.0", "x86_64"), EnvFailure}

LocationAnswers == {[err |-> TRUE, url |-> ""], [err |-> FALSE, url |-> "https://host/pkg.zip"]}

DownloadAnswers ==
    {[err |-> FALSE, path |-> "/var/pkg.zip"], [err |-> FALSE, path |-> ""],
     [err |-> TRUE, path |-> ""], [err |-> TRUE, path |-> "/var/pkg.zip.part"]}

ManifestKeys == {<<m.arn, m.version>> : m \in StoreManifests}

CacheKeys == (PackageNames \X RequestVersions) \cup ManifestKeys

EmptyCache == [k \in CacheKeys |-> Absent]

\* How the call relates to the one before it.  After a successful
\* DownloadManifest: sameArgs when it had the same (packageName, version),
\* sameBytes when the backend also gave it the same bytes, sameFetched when
\* the backend gave both the same bytes whatever they asked for, returnedKey when
\* it returned this call's (packageName, version) as the manifest's
\* resource identifier and version.
Prior(packageName, version, fetched) ==
    IF last.op = "DownloadManifest" /\ last.ret.err = ErrNone
    THEN [resolved |-> TRUE,
          sameArgs |-> last.packageName = packageName /\ last.version = version,
          sameBytes |-> /\ last.packageName = packageName /\ last.version = version
                        /\ last.fetched = fetched,
          sameFetched |-> last.fetched = fetched,
          returnedKey |-> last.ret.arn = packageName /\ last.ret.version = version]
    ELSE [resolved |-> FALSE, sameArgs |-> FALSE, sameBytes |-> FALSE,
          sameFetched |-> FALSE, returnedKey |-> FALSE]

(***************************************************************************)
(* The public operations on the cache.  A collaborator's answer is drawn   *)
(* only when the call reaches that collaborator, so that one call is one   *)
(* transition; `last.n` counts the calls of the behaviour.                 *)
(***************************************************************************)
MaxCalls == 2

NotAsked == Fetched(TRUE, Malformed)

NoLocation == [err |-> TRUE, url |-> ""]

NoDownload == [err |-> TRUE, path |-> ""]

\* The bytes decode, so downloadManifest goes on to the cache.
Decodes(fetched) == ~fetched.err /\ parseManifest(fetched.data).err = ErrNone

DownloadManifest ==
    /\ last.n < MaxCalls
    /\ \E packageName \in PackageNames, version \in RequestVersions,
          fetched \in BackendAnswers :
        \E writeOk \in IF Decodes(fetched) THEN BOOLEAN ELSE {TRUE} :
        \E r \in {downloadManifest(cache, packageName, version, fetched, writeOk)} :
        /\ cache' = r.cache
        /\ last' = [op |-> "DownloadManifest", n |-> last.n + 1,
                    packageName |-> packageName,
                    version |-> version, fetched |-> fetched, writeOk |-> writeOk,
                    before |-> cache, prior |-> Prior(packageName, version, fetched),
                    calls |-> r.calls, manifest |-> r.manifest,
                    ret |-> IF r.err # ErrNone
                            THEN [arn |-> "", version |-> "",
                                  isSameAsCache |-> r.isSameAsCache, err |-> r.err]
                            ELSE [arn |-> GetResourceArn(r.manifest.value),
                                  version |-> r.manifest.value.version,
                                  isSameAsCache |-> r.isSameAsCache, err |-> ErrNone]]

\* What DownloadArtifact holds when it has not called downloadManifest,
\* findFileFromManifest or downloadFile.
NotDownloaded(c, fromCache) ==
    [manifest |-> fromCache.manifest, isSameAsCache |-> FALSE, err |-> ErrNone,
     cache |-> c, calls |-> <<>>]

NotSearched == [err |-> ErrNone, file |-> NoFile]

NoTransfer == [path |-> "", err |-> ErrNone, calls |-> <<>>, checksums |-> <<>>]

DownloadArtifact ==
    /\ last.n < MaxCalls
    /\ \E packageName \in PackageNames, version \in RequestVersions :
        \E fromCache \in {readManifestFromCache(cache, packageName, version)} :
        \E fetched \in IF fromCache.err # ErrNone THEN BackendAnswers ELSE {NotAsked} :
        \E writeOk \in IF fromCache.err # ErrNone /\ Decodes(fetched)
                        THEN BOOLEAN ELSE {TRUE} :
        \* manifest, err := readManifestFromCache(...); if err != nil, downloadManifest
        \E dm \in {IF fromCache.err # ErrNone
                    THEN downloadManifest(cache, packageName, version, fetched, writeOk)
                    ELSE NotDownloaded(cache, fromCache)} :
        \E env \in IF dm.err = ErrNone THEN StoreHosts ELSE {EnvFailure} :
        \* file, err := ds.findFileFromManifest(tracer, manifest)
        \E found \in {IF dm.err = ErrNone
                       THEN findFileFromManifest(env, dm.manifest.value)
                       ELSE NotSearched} :
        \E location \in IF dm.err = ErrNone /\ found.err = ErrNone
                         THEN LocationAnswers ELSE {NoLocation} :
        \E downloaded \in IF dm.err = ErrNone /\ found.err = ErrNone /\ ~location.err
                           THEN DownloadAnswers ELSE {NoDownload} :
        \* return downloadFile(ds, tracer, file, packageName, version)
        \E df \in {IF dm.err = ErrNone /\ found.err = ErrNone
                    THEN downloadFile(found.file, packageName, version, location,
                                      downloaded)
                    ELSE NoTransfer} :
        /\ cache' = dm.cache
        /\ last' = [op |-> "DownloadArtifact", n |-> last.n + 1,
                    packageName |-> packageName,
                    version |-> version, fetched |-> fetched, writeOk |-> writeOk,
                    env |-> env, location |-> location, downloaded |-> downloaded,
                    before |-> cache, prior |-> Prior(packageName, version, fetched),
                    calls |-> <<Call("cache.ReadManifest", packageName, version)>>
                              \o dm.calls
                              \o (IF dm.err = ErrNone
                                  THEN <<Call("collector.CollectData", "", "")>>
                                  ELSE <<>>)
                              \o df.calls,
                    cacheHit |-> fromCache.err = ErrNone,
                    manifest |-> dm.manifest, file |-> found.file,
                    checksums |-> df.checksums,
                    ret |-> IF dm.err # ErrNone
                            THEN [path |-> "", err |-> "ManifestDownloadError",
                                  cause |-> dm.err]
                            ELSE IF found.err # ErrNone
                            THEN [path |-> "", err |-> found.err, cause |-> found.err]
                            ELSE [path |-> df.path, err |-> df.err, cause |-> df.err]]

\* The cache is storage outside the service: between two calls an entry may
\* be removed, become unreadable, or be overwritten with bytes that do not
\* decode.
CacheChangedOutside ==
    /\ last.n < MaxCalls
    /\ \E k \in ManifestKeys, e \in {Absent, Unreadable, Present(Malformed)} :
        /\ cache[k] # e
        /\ cache' = [cache EXCEPT ![k] = e]
        /\ last' = [op |-> "CacheChangedOutside", n |-> last.n]

\* The service is constructed over a cache that persists across runs: each
\* manifest key is absent, unreadable, or holds bytes written under it
\* (bytes of a manifest of that key, or bytes that no longer decode).
PersistedCaches ==
    {c \in [CacheKeys -> {Absent, Unreadable} \cup {Present(d) : d \in ManifestBytes \cup {Malformed}}] :
        \A k \in CacheKeys :
            /\ k \notin ManifestKeys => c[k] = Absent
            /\ (c[k].state = "present" /\ c[k].data.wf)
                 => <<c[k].data.doc.arn, c[k].data.doc.version>> = k}

Init == cache \in PersistedCaches /\ last = [op |-> "init", n |-> 0]

Next == DownloadManifest \/ DownloadArtifact \/ CacheChangedOutside

Spec == Init /\ [][Next]_vars

(***************************************************************************)
(* The selector, the locator and the reporter applied to a drawn input.    *)
(***************************************************************************)
ExtractPackageInfo ==
    /\ last.op = "input"
    /\ last' = [op |-> "extractPackageInfo", manifest |-> last.manifest, env |-> last.env,
                result |-> extractPackageInfo(last.env, last.manifest)]
    /\ UNCHANGED cache

FindFileFromManifest ==
    /\ last.op = "input"
    /\ last' = [op |-> "findFileFromManifest", manifest |-> last.manifest, env |-> last.env,
                pkginfo |-> extractPackageInfo(last.env, last.manifest),
                result |-> findFileFromManifest(last.env, last.manifest)]
    /\ UNCHANGED cache

ReportResult ==
    /\ last.op = "input"
    /\ last' = [op |-> "ReportResult", result |-> last.result, collected |-> last.collected,
                now |-> last.now, transportErr |-> last.transportErr,
                out |-> reportResult(last.result, last.collected, last.now,
                                     last.transportErr)]
    /\ UNCHANGED cache

InitSelector ==
    /\ cache = EmptyCache
    /\ last \in SelectorInputs(SelectorTrees(PlatformKeys, VersionKeys, ArchKeys, Variants))

NextSelector == ExtractPackageInfo

SpecSelector == InitSelector /\ [][NextSelector]_vars

InitLocate == cache = EmptyCache /\ last \in LocateInputs

NextLocate == FindFileFromManifest

SpecLocate == InitLocate /\ [][NextLocate]_vars

InitReport ==
    /\ cache = EmptyCache
    /\ last \in ReportInputs(PackageResults(Traces(MaxSteps)))

NextReport == ReportResult

SpecReport == InitReport /\ [][NextReport]_vars

(***************************************************************************)
(* Claims about the selector resolver (checked under SpecSelector).        *)
(***************************************************************************)
Resolved == last.op = "extractPackageInfo" /\ ~last.env.err

\* The key one level of the claimed algorithm takes: the host's value when
\* present, otherwise "_any" when present, otherwise none.
NoKey == "<none>"

LevelKey(hostValue, dict) ==
    CASE hostValue \in DOMAIN dict -> hostValue
      [] hostValue \notin DOMAIN dict /\ AnyKey \in DOMAIN dict -> AnyKey
      [] OTHER -> NoKey

\* A path of the tree that matches the host exactly or by wildcard.
MatchingPaths(env, packages) ==
    {t \in {env.platform, AnyKey} \X {env.platformVersion, AnyKey} \X {env.architecture, AnyKey} :
        /\ t[1] \in DOMAIN packages
        /\ t[2] \in DOMAIN packages[t[1]]
        /\ t[3] \in DOMAIN packages[t[1]][t[2]]}

\* C1: resolution equals three sequential lookups (packages, packages[k1],
\* packages[k1][k2]), each taking the host's value when it is a key, else
\* "_any" when it is a key, else failing with the no-match error; on success
\* the result is exactly packages[k1][k2][k3].
C1_SequentialLookups ==
    Resolved =>
        LET pk == last.manifest.packages
            k1 == LevelKey(last.env.platform, pk)
        IN IF k1 = NoKey THEN last.result.err = "NoMatchError"
           ELSE LET k2 == LevelKey(last.env.platformVersion, pk[k1])
                IN IF k2 = NoKey THEN last.result.err = "NoMatchError"
                   ELSE LET k3 == LevelKey(last.env.architecture, pk[k1][k2])
                        IN IF k3 = NoKey THEN last.result.err = "NoMatchError"
                           ELSE /\ last.result.err = ErrNone
                                /\ last.result.pkginfo = pk[k1][k2][k3]

\* An exact platform key wins over "_any", the version falls back to "_any",
\* and the exact architecture wins over a different "_any" entry.
C1_Witness ==
    /\ Resolved
    /\ last.env = Env("linux", "5.0", "x86_64")
    /\ DOMAIN last.manifest.packages = {"linux", AnyKey}
    /\ DOMAIN last.manifest.packages["linux"] = {AnyKey}
    /\ DOMAIN last.manifest.packages["linux"][AnyKey] = {"x86_64", AnyKey}
    /\ last.manifest.packages["linux"][AnyKey]["x86_64"]
         # last.manifest.packages["linux"][AnyKey][AnyKey]
    /\ last.result = [err |-> ErrNone,
                      pkginfo |-> last.manifest.packages["linux"][AnyKey]["x86_64"]]

\* C2: wildcard fallback is level-local.  When the host platform is an exact
\* key whose sub-map has neither the host version nor "_any", resolution
\* fails whatever packages["_any"] holds; and when the sub-map under the
\* chosen platform and version keys has neither the host architecture nor
\* "_any", resolution fails whatever the other version branch holds.
C2_NoBacktracking ==
    Resolved =>
        LET pk == last.manifest.packages
            p == last.env.platform
            v == last.env.platformVersion
            a == last.env.architecture
        IN /\ (p \in DOMAIN pk /\ v \notin DOMAIN pk[p] /\ AnyKey \notin DOMAIN pk[p])
                => last.result.err = "NoMatchError"
           /\ \A kp \in DOMAIN pk : \A kv \in DOMAIN pk[kp] :
                (/\ kp = LevelKey(p, pk)
                 /\ kv = LevelKey(v, pk[kp])
                 /\ a \notin DOMAIN pk[kp][kv]
                 /\ AnyKey \notin DOMAIN pk[kp][kv])
                => last.result.err = "NoMatchError"

\* The exact platform lacks the version while packages["_any"] holds a path
\* matching (version, architecture): resolution fails all the same.
C2_Witness ==
    /\ Resolved
    /\ last.env = Env("linux", "5.0", "x86_64")
    /\ DOMAIN last.manifest.packages = {"linux", AnyKey}
    /\ DOMAIN last.manifest.packages["linux"] = {}
    /\ "5.0" \in DOMAIN last.manifest.packages[AnyKey]
    /\ "x86_64" \in DOMAIN last.manifest.packages[AnyKey]["5.0"]
    /\ last.result.err = "NoMatchError"

\* C3 as stated: a matching path exists if and only if resolution succeeds
\* (with a variant on such a path), and otherwise it fails with no-match.
C3_Original ==
    Resolved =>
        LET paths == MatchingPaths(last.env, last.manifest.packages)
        IN IF paths # {}
           THEN /\ last.result.err = ErrNone
                /\ \E t \in paths :
                      last.result.pkginfo = last.manifest.packages[t[1]][t[2]][t[3]]
           ELSE last.result.err = "NoMatchError"

\* C3 amended: a successful resolution returns the variant of a matching
\* path; without any matching path resolution fails with no-match; the only
\* failure is no-match; and the exact path p/v/a, when present, is returned.
C3_Amended ==
    Resolved =>
        LET pk == last.manifest.packages
            paths == MatchingPaths(last.env, pk)
            exact == <<last.env.platform, last.env.platformVersion, last.env.architecture>>
        IN /\ last.result.err \in {ErrNone, "NoMatchError"}
           /\ last.result.err = ErrNone
                => \E t \in paths : last.result.pkginfo = pk[t[1]][t[2]][t[3]]
           /\ paths = {} => last.result.err = "NoMatchError"
           /\ exact \in paths
                => last.result = [err |-> ErrNone,
                                  pkginfo |-> pk[exact[1]][exact[2]][exact[3]]]

\* A path that matches only through the version wildcard is resolved.
C3_Witness ==
    /\ Resolved
    /\ last.env = Env("linux", "5.0", "x86_64")
    /\ MatchingPaths(last.env, last.manifest.packages) = {<<"linux", AnyKey, "x86_64">>}
    /\ last.result = [err |-> ErrNone, pkginfo |-> PackageInfo("pkg.zip")]

(***************************************************************************)
(* Claims about the artifact locator (checked under SpecLocate).           *)
(***************************************************************************)
\* The locator ran on a variant the selector resolved.
Located ==
    /\ last.op = "findFileFromManifest"
    /\ last.pkginfo.err = ErrNone
    /\ ~last.pkginfo.pkginfo.null

\* C8 as stated: the file is found exactly when variant.fileName is a key of
\* manifest.files; the result then carries that name and the value stored
\* under it; otherwise the file-not-found error.
C8_Original ==
    Located =>
        LET fileName == last.pkginfo.pkginfo.fileName
            files == last.manifest.files
        IN IF fileName \in DOMAIN files
           THEN /\ last.result.err = ErrNone
                /\ last.result.file = [name |-> fileName, info |-> files[fileName]]
           ELSE last.result.err = "FileNotFoundError"

\* C8 amended: the file is found exactly when variant.fileName is a key of
\* manifest.files whose entry is not null; the result then carries that name
\* and that entry.  When the name is no key, or its entry is null, the
\* locator fails with the file-not-found error.
C8_Amended ==
    Located =>
        LET fileName == last.pkginfo.pkginfo.fileName
            files == last.manifest.files
        IN IF fileName \in DOMAIN files /\ ~files[fileName].null
           THEN /\ last.result.err = ErrNone
                /\ last.result.file = [name |-> fileName, info |-> files[fileName]]
           ELSE /\ last.result.err = "FileNotFoundError"
                /\ last.result.file = NoFile

\* Two files are listed and the one the variant names is returned.
C8_Witness ==
    /\ Located
    /\ last.pkginfo.pkginfo.fileName = "other.zip"
    /\ DOMAIN last.manifest.files = {"pkg.zip", "other.zip"}
    /\ last.manifest.files["pkg.zip"] # last.manifest.files["other.zip"]
    /\ last.result = [err |-> ErrNone,
                      file |-> [name |-> "other.zip", info |-> last.manifest.files["other.zip"]]]

(***************************************************************************)
(* Claims about the result reporter (checked under SpecReport).            *)
(***************************************************************************)
\* reportResult built a payload.
Reported == last.op = "ReportResult" /\ ~last.out.input.null

\* q is the quotient of n by NanosPerMilli truncated toward zero.
IsTruncatedMillis(q, n) ==
    IF n >= 0
    THEN q >= 0 /\ q * NanosPerMilli <= n /\ n < (q + 1) * NanosPerMilli
    ELSE q <= 0 /\ q * NanosPerMilli >= n /\ n > (q - 1) * NanosPerMilli

\* C9: the payload's step list has the length and order of result.steps, and
\* its i-th step carries the operation name, the exit code and the elapsed
\* time of the i-th input step.
C9_StepsInOrder ==
    Reported =>
        LET trace == last.result.trace
            steps == last.out.input.steps
        IN /\ Len(steps) = Len(trace)
           /\ \A i \in 1..Len(trace) :
                /\ steps[i].action = trace[i].operation
                /\ steps[i].result = trace[i].exitcode
                /\ IsTruncatedMillis(steps[i].timing, trace[i].timing - last.result.timing)

\* Two steps that differ in operation, exit code and elapsed time.
C9_Witness ==
    /\ Reported
    /\ Len(last.result.trace) = 2
    /\ last.result.trace[1].operation # last.result.trace[2].operation
    /\ last.result.trace[1].exitcode # last.result.trace[2].exitcode
    /\ last.out.input.steps[1].timing # last.out.input.steps[2].timing
    /\ last.out.input.steps[1].action = last.result.trace[1].operation
    /\ last.out.input.steps[2].result = last.result.trace[2].exitcode

\* C10: a step stamped T in a run started at S reports (T - S) / 1_000_000
\* truncated toward zero: 0 when T = S, negative or zero when T < S, and 2
\* for S = 1_000_000_000, T = 1_002_000_000; the overall elapsed time is
\* (now - S) / 1_000_000 with now read from the time source.
C10_ElapsedMillis ==
    Reported =>
        LET S == last.result.timing
            trace == last.result.trace
            steps == last.out.input.steps
        IN /\ \A i \in 1..Len(trace) :
                LET T == trace[i].timing IN
                /\ IsTruncatedMillis(steps[i].timing, T - S)
                /\ T = S => steps[i].timing = 0
                /\ T < S => steps[i].timing <= 0
                /\ (S = 1000000000 /\ T = 1002000000) => steps[i].timing = 2
           /\ IsTruncatedMillis(last.out.input.overallTiming, last.now - S)

\* The scenario of the specification (2 ms), a step before the start whose
\* quotient truncates to -1, and an overall time that truncates to 0.
C10_Witness ==
    /\ Reported
    /\ last.result.timing = 1000000000
    /\ last.now = 999999999
    /\ Len(last.result.trace) = 2
    /\ last.result.trace[1].timing = 1002000000
    /\ last.result.trace[2].timing = 998500001
    /\ last.out.input.steps[1].timing = 2
    /\ last.out.input.steps[2].timing = -1
    /\ last.out.input.overallTiming = 0

(***************************************************************************)
(* Claims about the manifest store and the artifact download (checked      *)
(* under Spec).                                                            *)
(***************************************************************************)
\* DownloadManifest returned without error.
ResolvedManifest == last.op = "DownloadManifest" /\ last.ret.err = ErrNone

\* DownloadArtifact missed the cache and its downloadManifest succeeded.
ResolvedInDownload ==
    /\ last.op = "DownloadArtifact"
    /\ ~last.cacheHit
    /\ ~last.manifest.null

\* The document the fetched bytes decode to, and the key made of its own
\* resource identifier and version.
FreshDoc == last.fetched.data.doc

FreshKey == <<FreshDoc.arn, FreshDoc.version>>

\* The entry holds bytes that decode.
Decodable(entry) == entry.state = "present" /\ entry.data.wf

CallsTo(fn) == {i \in 1..Len(last.calls) : last.calls[i].fn = fn}

\* C4: after a successful resolveManifest, isUnchangedFromCache is true if
\* and only if the cache held, under the key (resource identifier, version)
\* of the freshly parsed manifest, bytes that decode to a manifest equal to
\* the fresh one; the cache is read under that key and no other.
C4_UnchangedIffCachedEqual ==
    ResolvedManifest =>
        /\ last.ret.isSameAsCache
             <=> (/\ Decodable(last.before[FreshKey])
                  /\ last.before[FreshKey].data.doc = FreshDoc)
        /\ \A i \in CallsTo("cache.ReadManifest") :
             <<last.calls[i].name, last.calls[i].version>> = FreshKey

\* Asked for "latest": the manifest's own key held other bytes of the same
\* document, and the manifest is reported unchanged.
C4_Witness ==
    /\ ResolvedManifest
    /\ last.version = Latest
    /\ FreshKey # <<last.packageName, last.version>>
    /\ Decodable(last.before[FreshKey])
    /\ last.before[FreshKey].data # last.fetched.data
    /\ last.ret.isSameAsCache

\* C5: a successful resolveManifest (called directly, or by an artifact
\* download that missed the cache) writes the cache exactly once, under the
\* key of the parsed manifest, changed or not; afterwards that key holds
\* exactly the bytes fetched in this call and every other key holds what it
\* held before.
C5_OneFullWrite ==
    (ResolvedManifest \/ ResolvedInDownload) =>
        /\ Cardinality(CallsTo("cache.WriteManifest")) = 1
        /\ \A i \in CallsTo("cache.WriteManifest") :
             <<last.calls[i].name, last.calls[i].version>> = FreshKey
        /\ cache[FreshKey] = Present(last.fetched.data)
        /\ \A k \in CacheKeys \ {FreshKey} : cache[k] = last.before[k]

\* An unchanged manifest arrives in other bytes: the entry is replaced by
\* them, and the entry of the other package stays.
C5_Witness ==
    /\ ResolvedManifest
    /\ last.ret.isSameAsCache
    /\ last.before[FreshKey].data # last.fetched.data
    /\ cache[FreshKey].data = last.fetched.data
    /\ \E k \in ManifestKeys \ {FreshKey} : Decodable(cache[k])

\* C6: an artifact download first reads the cache under the caller's
\* (packageName, version); it fetches the manifest from the backend if and
\* only if that read failed (no readable entry, or bytes that do not
\* decode); on a successful read it neither fetches nor writes the cache and
\* resolves the selector on the cached manifest.
C6_CacheBeforeBackend ==
    last.op = "DownloadArtifact" =>
        LET entry == last.before[<<last.packageName, last.version>>]
            fetches == CallsTo("archive.DownloadArchiveInfo")
        IN /\ last.calls[1] = Call("cache.ReadManifest", last.packageName, last.version)
           /\ \A i \in fetches : i > 1
           /\ (fetches # {}) <=> ~Decodable(entry)
           /\ Decodable(entry) =>
                /\ CallsTo("cache.WriteManifest") = {}
                /\ cache = last.before
                /\ last.cacheHit
                /\ last.manifest = [null |-> FALSE, value |-> entry.data.doc]

\* The cached manifest serves a download through to the local path.
C6_Witness ==
    /\ last.op = "DownloadArtifact"
    /\ last.cacheHit
    /\ last.ret.err = ErrNone
    /\ last.ret.path # ""
    /\ CallsTo("archive.DownloadArchiveInfo") = {}

\* C7 as stated: after a successful resolveManifest(packageName, version),
\* an artifact download for the same (packageName, version) takes the cache
\* path and makes no manifest fetch.
C7_Original ==
    (last.op = "DownloadArtifact" /\ last.prior.sameArgs) =>
        /\ last.cacheHit
        /\ CallsTo("archive.DownloadArchiveInfo") = {}

\* C7 amended: after a successful resolveManifest(packageName, version), an
\* artifact download for the same (packageName, version) takes the cache
\* path and makes no manifest fetch provided (packageName, version) are the
\* resource identifier and version of the manifest resolveManifest returned
\* (which the "latest" sentinel never is).
C7_Amended ==
    (last.op = "DownloadArtifact" /\ last.prior.sameArgs /\ last.prior.returnedKey) =>
        /\ last.cacheHit
        /\ CallsTo("archive.DownloadArchiveInfo") = {}

\* The download follows a resolveManifest of its own (packageName, version)
\* and is served by the cache.
C7_Witness ==
    /\ last.op = "DownloadArtifact"
    /\ last.prior.sameArgs
    /\ last.prior.returnedKey
    /\ last.cacheHit
    /\ last.ret.err = ErrNone

\* DownloadArtifact obtained a manifest and located the variant's file, so it
\* went on to downloadFile.
ReachedDownloadFile ==
    /\ last.op = "DownloadArtifact"
    /\ ~last.manifest.null
    /\ last.file # NoFile

\* C11: downloadFile returns a local path if and only if the backend gave a
\* download URL and the downloader answered no error and a non-empty path,
\* and that path is then the downloader's; a downloader error or an empty
\* path gives a download error and an empty path; a backend failure gives
\* the backend's error, and the downloader is not invoked.
C11_PathIffDownloaded ==
    ReachedDownloadFile =>
        LET transferred == /\ ~last.location.err
                           /\ ~last.downloaded.err
                           /\ last.downloaded.path # ""
        IN /\ (last.ret.path # "") <=> transferred
           /\ transferred => last.ret = [path |-> last.downloaded.path, err |-> ErrNone,
                                         cause |-> ErrNone]
           /\ (~last.location.err /\ ~transferred)
                => /\ last.ret.path = "" /\ last.ret.err = "DownloadError"
                   /\ Cardinality(CallsTo("Networkdep.Download")) = 1
           /\ last.location.err
                => /\ last.ret.path = "" /\ last.ret.err = "BackendError"
                   /\ CallsTo("Networkdep.Download") = {}

\* The downloader reports an error although it left a partial file behind.
C11_Witness ==
    /\ ReachedDownloadFile
    /\ ~last.location.err
    /\ last.downloaded = [err |-> TRUE, path |-> "/var/pkg.zip.part"]
    /\ last.ret.path = ""
    /\ last.ret.err = "DownloadError"

\* resolveManifest (called directly, or by an artifact download that missed
\* the cache) fetched bytes that decode, and the cache read for the
\* comparison failed: nothing under the fresh manifest's key, an unreadable
\* entry, or bytes that do not decode.
ComparisonReadFailed ==
    /\ last.op \in {"DownloadManifest", "DownloadArtifact"}
    /\ last.op = "DownloadArtifact" => ~last.cacheHit
    /\ Decodes(last.fetched)
    /\ ~Decodable(last.before[FreshKey])

\* C12: a failed cache read during change detection does not fail
\* resolveManifest.  The write of the fresh bytes is still made, and the call
\* fails only when that write fails; when the write succeeds the cache holds
\* the fresh bytes under the manifest's key and the freshly parsed manifest
\* is returned; isUnchangedFromCache is false.
C12_ReadFailureNotFatal ==
    ComparisonReadFailed =>
        /\ Cardinality(CallsTo("cache.WriteManifest")) = 1
        /\ \A i \in CallsTo("cache.WriteManifest") :
              <<last.calls[i].name, last.calls[i].version>> = FreshKey
        /\ last.manifest.null <=> ~last.writeOk
        /\ last.writeOk =>
              /\ last.manifest = [null |-> FALSE, value |-> FreshDoc]
              /\ cache[FreshKey] = Present(last.fetched.data)
        /\ last.op = "DownloadManifest" =>
              /\ ~last.ret.isSameAsCache
              /\ last.ret.err = (IF last.writeOk THEN ErrNone ELSE "CacheWriteError")
              /\ last.writeOk => <<last.ret.arn, last.ret.version>> = FreshKey

\* The cache held bytes that do not decode under the manifest's key, and the
\* call returned the fresh manifest and replaced them.
C12_Witness ==
    /\ ComparisonReadFailed
    /\ last.op = "DownloadManifest"
    /\ last.before[FreshKey] = Present(Malformed)
    /\ last.ret.err = ErrNone
    /\ ~last.ret.isSameAsCache
    /\ cache[FreshKey] = Present(last.fetched.data)

\* resolveManifest fetched bytes that decode and the cache write failed.
WriteFailed ==
    /\ last.op \in {"DownloadManifest", "DownloadArtifact"}
    /\ last.op = "DownloadArtifact" => ~last.cacheHit
    /\ Decodes(last.fetched)
    /\ ~last.writeOk

\* C13: when the cache write fails, resolveManifest fails with the
\* cache-write error and hands out no manifest: DownloadManifest returns an
\* empty resource identifier and version with the error, and an artifact
\* download on the fallback path fails with that cause before the
\* environment is collected, a download URL resolved or the downloader
\* invoked.
C13_WriteFailureAborts ==
    WriteFailed =>
        /\ last.manifest.null
        /\ CallsTo("cache.WriteManifest") # {}
        /\ last.op = "DownloadManifest" =>
              /\ last.ret.err = "CacheWriteError"
              /\ last.ret.arn = "" /\ last.ret.version = ""
        /\ last.op = "DownloadArtifact" =>
              /\ last.ret = [path |-> "", err |-> "ManifestDownloadError",
                             cause |-> "CacheWriteError"]
              /\ last.file = NoFile
              /\ CallsTo("collector.CollectData") = {}
              /\ CallsTo("archive.GetFileDownloadLocation") = {}
              /\ CallsTo("Networkdep.Download") = {}

\* An artifact download missed the cache, fetched the scenario manifest and
\* could not store it.
C13_Witness ==
    /\ WriteFailed
    /\ last.op = "DownloadArtifact"
    /\ FreshDoc = Manifest("arnA", "1.0", ScenarioTree, PkgFiles)
    /\ last.ret.cause = "CacheWriteError"

(***************************************************************************)
(* Claims about the result reporter's collaborators (checked under         *)
(* SpecReport).                                                            *)
(***************************************************************************)
SubmissionsOf(calls) ==
    {i \in 1..Len(calls) : calls[i] = "facadeClient.PutConfigurePackageResult"}

\* C14: a failure of the environment collector is not fatal to reportResult:
\* whatever the collector returned with its error, the payload is built, one
\* submission is made, and the call fails exactly when the transport fails.
C14_CollectorFailureNotFatal ==
    (last.op = "ReportResult" /\ last.collected.err) =>
        /\ ~last.out.input.null
        /\ Cardinality(SubmissionsOf(last.out.calls)) = 1
        /\ last.out.err = (IF last.transportErr THEN "ReportSubmissionError" ELSE ErrNone)

\* C15: every reportResult call makes exactly one submission and calls
\* neither the cache, the archive backend nor the downloader; it returns an
\* error if and only if the transport did, and the error is the
\* report-submission error.
C15_OneSubmissionOnly ==
    last.op = "ReportResult" =>
        /\ Cardinality(SubmissionsOf(last.out.calls)) = 1
        /\ \A i \in 1..Len(last.out.calls) :
              last.out.calls[i] \in {"collector.CollectData", "timeProvider.NowUnixNano",
                                     "facadeClient.PutConfigurePackageResult"}
        /\ cache = EmptyCache
        /\ (last.out.err # ErrNone) <=> last.transportErr
        /\ last.transportErr => last.out.err = "ReportSubmissionError"

(***************************************************************************)
(* Claims about the order and number of collaborator calls (checked under  *)
(* Spec).                                                                  *)
(***************************************************************************)
\* How many times the last operation called the collaborator function.
Invocations(fn) == Cardinality(CallsTo(fn))

ExpectedFile(env, manifest) ==
    IF env.err THEN NoFile
    ELSE LET pk == manifest.packages
             k1 == LevelKey(env.platform, pk)
         IN IF k1 = NoKey THEN NoFile
            ELSE LET k2 == LevelKey(env.platformVersion, pk[k1])
                 IN IF k2 = NoKey THEN NoFile
                    ELSE LET k3 == LevelKey(env.architecture, pk[k1][k2])
                         IN IF k3 = NoKey \/ pk[k1][k2][k3].null THEN NoFile
                            ELSE LET fileName == pk[k1][k2][k3].fileName
                                 IN IF fileName \in DOMAIN manifest.files
                                       /\ ~manifest.files[fileName].null
                                    THEN [name |-> fileName,
                                          info |-> manifest.files[fileName]]
                                    ELSE NoFile

\* The artifact download has something to fetch.
FileExpected ==
    /\ ~last.manifest.null
    /\ ExpectedFile(last.env, last.manifest.value) # NoFile

\* C19: an artifact download resolves the download URL and invokes the
\* downloader only after it obtained a manifest, collected the environment,
\* resolved the selector and located the variant's file.  When any of these
\* fails it returns an error and calls neither; when it has a file it
\* resolves the URL after collecting the environment, invokes the downloader
\* after the URL resolution, and passes the checksums of the located entry.
C19_DownloadOnlyAfterLocate ==
    last.op = "DownloadArtifact" =>
        /\ ~FileExpected =>
              /\ last.ret.err # ErrNone
              /\ last.ret.path = ""
              /\ CallsTo("archive.GetFileDownloadLocation") = {}
              /\ CallsTo("Networkdep.Download") = {}
              /\ last.checksums = <<>>
        /\ FileExpected =>
              /\ last.file = ExpectedFile(last.env, last.manifest.value)
              /\ Invocations("archive.GetFileDownloadLocation") = 1
              /\ \A i \in CallsTo("archive.GetFileDownloadLocation") :
                    \E j \in CallsTo("collector.CollectData") : j < i
        /\ \A i \in CallsTo("Networkdep.Download") :
              /\ FileExpected
              /\ \E j \in CallsTo("archive.GetFileDownloadLocation") : j < i
              /\ last.checksums = <<ExpectedFile(last.env, last.manifest.value).info.checksums>>

\* The manifest of the other package was fetched, its file located, and the
\* downloader invoked with that file's checksums.
C19_Witness ==
    /\ last.op = "DownloadArtifact"
    /\ FileExpected
    /\ last.manifest.value.arn = "arnB"
    /\ CallsTo("Networkdep.Download") # {}
    /\ last.checksums = <<[sha256 |-> "def"]>>
    /\ last.ret.path = "/var/pkg.zip"

(***************************************************************************)
(* Claims about what resolveManifest leaves in the cache (checked under    *)
(* Spec).                                                                  *)
(***************************************************************************)
\* resolveManifest (called directly, or by an artifact download that missed
\* the cache) got no bytes from the backend, or bytes that do not decode.
FetchOrParseFailed ==
    /\ last.op \in {"DownloadManifest", "DownloadArtifact"}
    /\ last.op = "DownloadArtifact" => ~last.cacheHit
    /\ last.fetched.err \/ ~last.fetched.data.wf

\* C17: when the backend fetch fails or the fetched bytes do not parse,
\* resolveManifest makes no cache write: every key holds after the call what
\* it held before, the call fails with the backend's or the decoder's error,
\* and the returned isUnchangedFromCache is false.
C17_NoWriteOnFetchOrParseFailure ==
    FetchOrParseFailed =>
        /\ cache = last.before
        /\ CallsTo("cache.WriteManifest") = {}
        /\ last.manifest.null
        /\ last.op = "DownloadManifest" =>
              /\ ~last.ret.isSameAsCache
              /\ last.ret.err = (IF last.fetched.err THEN "BackendError" ELSE "DecodeError")
        /\ last.op = "DownloadArtifact" =>
              last.ret.cause = (IF last.fetched.err THEN "BackendError" ELSE "DecodeError")

\* The backend answered bytes that do not decode while the cache held a
\* manifest: the cache still holds it.
C17_Witness ==
    /\ FetchOrParseFailed
    /\ last.op = "DownloadManifest"
    /\ ~last.fetched.err
    /\ Decodable(last.before[<<"arnA", "1.0">>])
    /\ cache = last.before
    /\ last.ret.err = "DecodeError"

\* Two consecutive DownloadManifest calls succeeded on the same bytes from
\* the backend, with no other writer to the cache in between.
ResolvedTwiceOnSameBytes ==
    /\ ResolvedManifest
    /\ last.prior.resolved
    /\ last.prior.sameFetched

\* C18: when two consecutive resolveManifest calls both succeed and the
\* backend gives both the same bytes, the second reports
\* isUnchangedFromCache = true and leaves the cache as the first left it,
\* whatever the cache held before the first.
C18_SecondCallUnchanged ==
    ResolvedTwiceOnSameBytes =>
        /\ last.ret.isSameAsCache
        /\ cache = last.before

\* The second call asked for "latest" and the first for a version, and the
\* backend answered both with the same bytes.
C18_Witness ==
    /\ ResolvedTwiceOnSameBytes
    /\ ~last.prior.sameArgs
    /\ last.version = Latest
    /\ last.ret.isSameAsCache
    /\ cache = last.before

====
